---- MODULE Spec2Model ----
(***************************************************************************)
(* Model of the POS extraction / reconciliation / reporting pipeline of    *)
(* src/app.py: the four fetch operations, the reference normalisation, the *)
(* phone normalisation, the workbook builder, the report run and the       *)
(* script body of main (date range, terminal resolution, the button).      *)
(*                                                                         *)
(* Python values are tagged records: None is [t |-> "none"], False is      *)
(* [t |-> "bool"], an int n is [t |-> "int", n |-> n], a list is           *)
(* [t |-> "list", items |-> <<...>>] and a key that is missing from a dict *)
(* is [t |-> "absent"]. The remote sends a null reference as None or False.*)
(* Strings that the code inspects character by character are sequences of  *)
(* one-character strings.                                                  *)
(***************************************************************************)
EXTENDS Integers, Sequences, FiniteSets, TLC

VARIABLES
    pc,                 \* position of the running operation
    op,                 \* the operation under execution
    order_batch_size,   \* CONFIG['order_batch_size']
    read_batch_size,    \* CONFIG['read_batch_size']
    remote_ids,         \* the id list matching the search domain at the remote
    order_ids,          \* fetch_order_ids: accumulator; fetch_order_details: argument
    offset,             \* fetch_order_ids: offset of the next search call
    i,                  \* loop index of the batched reads
    orders,             \* fetch_order_details: accumulator; later phases: argument
    partner_ids,        \* fetch_related_data: deduplicated customer ids
    config_ids,         \* fetch_related_data: deduplicated terminal ids
    partners,           \* fetch_related_data: customer records read so far
    remote_partners,    \* ids of the customers that still exist at the remote
    branch_name,        \* fetch_pos_configs: argument
    remote_terminals,   \* the pos.config records held by the remote
    partner_dict,       \* customer map handed to the phases after the join
    config_dict,        \* terminal map handed to the phases after the join
    mobile,             \* format_mobile_number: argument
    today,              \* main: datetime.now().date(), as a day number
    from_date,          \* main: first day of the selected range
    to_date,            \* main: last day of the selected range
    pos_configs,        \* main: the terminals resolved for the branch
    selected_configs,   \* main: the names picked in the multiselect, if it was drawn
    button,             \* main: whether "Generate Report" was pressed in this script run
    domain,             \* main: the search domain handed to the remote by the report run
    detail_sheet,       \* generate_excel: rows of "Order Details", by 0-based row
    customer_data,      \* generate_excel: the per-customer fold, in insertion order
    summary_sheet,      \* generate_excel: rows of "Customer Summary", by 0-based row
    date_data,          \* generate_excel: the per-day fold, ascending by date
    analysis_sheet,     \* generate_excel: rows of "Sales Analysis", by 0-based row
    chart,              \* generate_excel: the series of the embedded chart, if any
    df_data,            \* create_analytics_dashboard: rows of the data frame
    preview_data,       \* main: rows of the data preview
    shown,              \* main: what the run put on the page
    rpc_calls,          \* every execute_kw call issued, in order
    progress,           \* values handed to progress_bar.progress, as <<num, den>>
    errors,             \* messages handed to st.error
    result              \* value returned by the operation

\* the variables of the script body of main
mainVars == <<today, from_date, to_date, pos_configs, selected_configs, button, domain>>
\* what an operation is given and never assigns (the variables of the script body of main
\* are fixed while an operation that main calls is running)
inputs == <<op, order_batch_size, read_batch_size, remote_ids, remote_partners,
            branch_name, remote_terminals, partner_dict, config_dict, mobile, mainVars>>
\* locals of fetch_order_ids
scanVars == <<order_ids, offset>>
\* locals of fetch_related_data
relVars == <<partner_ids, config_ids, partners>>

\* the workbook under construction in generate_excel
bookVars == <<detail_sheet, customer_data, summary_sheet, date_data, analysis_sheet, chart>>
\* what the report run of main builds and shows
runVars == <<df_data, preview_data, shown>>
\* locals of the fetch operations
fetchVars == <<scanVars, i, relVars, rpc_calls, progress>>

vars == <<pc, inputs, scanVars, i, orders, relVars, bookVars, runVars, rpc_calls, progress,
          errors, result>>

----------------------------------------------------------------------------
(* Bounds of the model *)

MaxTotal == 5       \* longest id list held by the remote
MaxBatch == 3       \* largest page size / read batch size
MaxId == 2          \* customer ids are 1..MaxId
MaxOrders == 2      \* longest transaction list handed to a later phase
MaxHead == 3        \* longest free prefix of a phone number input

----------------------------------------------------------------------------
(* Python helpers *)

Min(a, b) == IF a < b THEN a ELSE b
Max(a, b) == IF a > b THEN a ELSE b

\* s[a:b] with 0-based a, b (b may exceed len(s))
Slice(s, a, b) == SubSeq(s, a + 1, Min(b, Len(s)))

None == [t |-> "none"]
FalseV == [t |-> "bool"]
Absent == [t |-> "absent"]
\* a local name that no assignment has bound yet
Unbound == [t |-> "unbound"]
IntV(n) == [t |-> "int", n |-> n]
ListV(items) == [t |-> "list", items |-> items]

----------------------------------------------------------------------------
(* Strings as sequences of characters *)

Digits == {"0", "1", "2", "3", "4", "5", "6", "7", "8", "9"}

UpperCase == <<"A", "B", "C", "D", "E", "H", "J", "L", "M", "N", "P", "R", "T", "U", "V",
               "X", "Y", "Z", "G", "I", "K", "O", "S">>
LowerCase == <<"a", "b", "c", "d", "e", "h", "j", "l", "m", "n", "p", "r", "t", "u", "v",
               "x", "y", "z", "g", "i", "k", "o", "s">>

\* str.lower()
LowerChar(c) == IF \E k \in 1..Len(UpperCase) : UpperCase[k] = c
                THEN LowerCase[CHOOSE k \in 1..Len(UpperCase) : UpperCase[k] = c]
                ELSE c
Lower(s) == [k \in 1..Len(s) |-> LowerChar(s[k])]

\* str.startswith(p)
StartsWith(s, p) == Len(p) <= Len(s) /\ SubSeq(s, 1, Len(p)) = p

\* sub in s
Contains(s, sub) == \E k \in 0..(Len(s) - Len(sub)) : SubSeq(s, k + 1, k + Len(sub)) = sub

\* str.strip()
RECURSIVE LStrip(_)
LStrip(s) == IF s # <<>> /\ s[1] = " " THEN LStrip(Tail(s)) ELSE s
RECURSIVE RStrip(_)
RStrip(s) == IF s # <<>> /\ s[Len(s)] = " " THEN RStrip(SubSeq(s, 1, Len(s) - 1)) ELSE s
Strip(s) == RStrip(LStrip(s))

----------------------------------------------------------------------------
(* format_mobile_number *)

IsDigit(c) == c \in Digits

\* re.sub(r'[^\d]', '', str(mobile)), then one leading 0 dropped
Cleaned(number) ==
    LET digits == SelectSeq(number, IsDigit)
    IN  IF StartsWith(digits, <<"0">>) THEN Tail(digits) ELSE digits

\* `not cleaned.startswith('91') and len(cleaned) == 10`
NeedsPrefix(cleaned) == ~StartsWith(cleaned, <<"9", "1">>) /\ Len(cleaned) = 10

\* `len(cleaned) == 12 and cleaned.startswith('91')`
HasPrefix(cleaned) == Len(cleaned) = 12 /\ StartsWith(cleaned, <<"9", "1">>)

format_mobile_number(number) ==
    IF number = <<>> THEN <<>>
    ELSE LET cleaned == Cleaned(number)
         IN  IF NeedsPrefix(cleaned) THEN <<"+", "9", "1">> \o cleaned
             ELSE IF HasPrefix(cleaned) THEN <<"+">> \o cleaned
             ELSE number

----------------------------------------------------------------------------
(* Normalisation of a reference field (partner_id, config_id) *)

NormalizeRefKeepList(field) ==
    IF field.t = "list" /\ Len(field.items) > 0 THEN field
    ELSE IF field.t \in {"int", "bool"} THEN field
    ELSE None

\* non-empty list -> first item, int -> itself (isinstance(False, int) holds too, so
\* False -> False), anything else -> None
NormalizeRef(field) ==
    IF field.t = "list" /\ Len(field.items) > 0 THEN IntV(field.items[1])
    ELSE IF field.t \in {"int", "bool"} THEN field
    ELSE None

\* truth value of a normalised id: `if partner_id:`
Truthy(v) == v.t = "int" /\ v.n # 0

\* the ids of a list in ascending order: list(set(ids)) for small ints
RECURSIVE SortedSeq(_)
SortedSeq(S) == IF S = {} THEN <<>>
                ELSE LET m == CHOOSE x \in S : \A y \in S : x <= y
                     IN  <<m>> \o SortedSeq(S \ {m})

\* {r['id']: r for r in records}
DictOf(records) ==
    [k \in {records[j].id : j \in 1..Len(records)} |->
        records[CHOOSE j \in 1..Len(records) :
                    /\ records[j].id = k
                    /\ \A j2 \in 1..Len(records) : records[j2].id = k => j2 <= j]]

\* dict.get(key, {}) : the record, or the empty record
EmptyRecord == [t |-> "empty"]
DictGet(d, key) == IF key \in DOMAIN d THEN d[key] ELSE EmptyRecord

----------------------------------------------------------------------------
(* The remote service *)

\* search(domain, offset, limit): the slice [offset, offset+limit) of the matching ids
RemoteSearch(off, limit) == Slice(remote_ids, off, off + limit)

\* read('pos.order', ids): one record per id, in the order asked
RemoteOrder(id) ==
    [id |-> id,
     partner_id |-> IF id % 3 = 0 THEN None ELSE ListV(<<1 + (id % 2), "label">>),
     config_id |-> ListV(<<1, "label">>),
     amount_total |-> id,
     date_order |-> "2024-01-01 10:00:00"]
RemoteReadOrders(ids) == [k \in 1..Len(ids) |-> RemoteOrder(ids[k])]

----------------------------------------------------------------------------
(* The except clause shared by the fetch operations: st.error, return empty *)

FetchExceptReraise(msg, empty) ==
    /\ errors' = Append(errors, msg)
    /\ result' = empty
    /\ pc' = "raised"

FetchExcept(msg, empty) ==
    /\ errors' = Append(errors, msg)
    /\ result' = empty
    /\ pc' = "returned"

----------------------------------------------------------------------------
(* fetch_order_ids *)

\* a variant that reports the fraction of the remote's list scanned so far
ScanProgressOfTotal(off) == <<off, Len(remote_ids)>>

\* min(offset / (offset + 100), 0.95) as a fraction
ScanProgress(off) == IF 100 * off <= 95 * (off + 100) THEN <<off, off + 100>> ELSE <<95, 100>>

One == <<1, 1>>

StopScanShortPage(batch) == Len(batch) < order_batch_size

\* a variant with a fixed iteration count: the loop is left at its second search call
StopScanSecondCall(batch) == Len(batch) = 0 \/ Len(rpc_calls) >= 1

\* `if not batch: break`
StopScan(batch) == Len(batch) = 0

NextOffsetPageIndex(off, batch) == off + 1

\* `offset += len(batch)`
NextOffset(off, batch) == off + Len(batch)

SearchCall(off) == [method |-> "search", offset |-> off, limit |-> order_batch_size,
                    n |-> Len(RemoteSearch(off, order_batch_size))]

\* one iteration of the while loop whose page is kept
IdsPage ==
    /\ op = "ids" /\ pc = "ids_loop"
    /\ LET batch == RemoteSearch(offset, order_batch_size) IN
        /\ ~StopScan(batch)
        /\ rpc_calls' = Append(rpc_calls, SearchCall(offset))
        /\ order_ids' = order_ids \o batch
        /\ offset' = NextOffset(offset, batch)
        /\ progress' = Append(progress, ScanProgress(NextOffset(offset, batch)))
    /\ UNCHANGED <<pc, inputs, bookVars, runVars, i, orders, relVars, errors, result>>

\* the iteration that breaks out of the loop, and the return
IdsLastPage ==
    /\ op = "ids" /\ pc = "ids_loop"
    /\ StopScan(RemoteSearch(offset, order_batch_size))
    /\ rpc_calls' = Append(rpc_calls, SearchCall(offset))
    /\ progress' = Append(progress, One)
    /\ result' = order_ids
    /\ pc' = "returned"
    /\ UNCHANGED <<inputs, bookVars, runVars, scanVars, i, orders, relVars, errors>>

\* the search call raises
IdsRaise ==
    /\ op = "ids" /\ pc = "ids_loop"
    /\ rpc_calls' = Append(rpc_calls, [method |-> "search", offset |-> offset,
                                       limit |-> order_batch_size, n |-> -1])
    /\ FetchExcept("Error fetching order IDs", <<>>)
    /\ UNCHANGED <<inputs, bookVars, runVars, scanVars, i, orders, relVars, progress>>

----------------------------------------------------------------------------
(* fetch_order_details *)

ReadCall(model, ids, n) == [method |-> "read", model |-> model, ids |-> ids, n |-> n]

\* order_ids[i:i+read_batch_size]
BatchIds(ids, k) == Slice(ids, k, k + read_batch_size)

\* one iteration of the for loop over range(0, len(order_ids), read_batch_size)
DetailsRead ==
    /\ op = "details" /\ pc = "details_loop"
    /\ i < Len(order_ids)
    /\ LET batch_ids == BatchIds(order_ids, i)
           batch_orders == RemoteReadOrders(batch_ids) IN
        /\ rpc_calls' = Append(rpc_calls, ReadCall("pos.order", batch_ids, Len(batch_orders)))
        /\ orders' = IF Len(batch_orders) > 0 THEN orders \o batch_orders ELSE orders
        /\ progress' = Append(progress, <<i + Len(batch_ids), Len(order_ids)>>)
    /\ i' = i + read_batch_size
    /\ UNCHANGED <<pc, inputs, bookVars, runVars, scanVars, relVars, errors, result>>

\* the loop is exhausted: progress 1.0 and return orders
DetailsReturn ==
    /\ op = "details" /\ pc = "details_loop"
    /\ i >= Len(order_ids)
    /\ progress' = Append(progress, One)
    /\ result' = orders
    /\ pc' = "returned"
    /\ UNCHANGED <<inputs, bookVars, runVars, scanVars, i, orders, relVars, rpc_calls, errors>>

\* the read call of the current group raises
DetailsRaise ==
    /\ op = "details" /\ pc = "details_loop"
    /\ i < Len(order_ids)
    /\ rpc_calls' = Append(rpc_calls, ReadCall("pos.order", BatchIds(order_ids, i), -1))
    /\ FetchExcept("Error fetching order details", <<>>)
    /\ UNCHANGED <<inputs, bookVars, runVars, scanVars, i, orders, relVars, progress>>

----------------------------------------------------------------------------
(* fetch_related_data *)

\* raw phone numbers stored at the remote, by customer id
RemoteMobile(id) ==
    IF id = 1 THEN <<"9", "8", "7", "6", "5", "4", "3", "2", "1", "0">>
    ELSE IF id = 2 THEN <<"0", "9", "8", "7", "6", "5", "4", "3", "2", "1", "0">>
    ELSE <<>>

RemotePartner(id) == [id |-> id, name |-> <<"partner", id>>, mobile |-> RemoteMobile(id),
                      email |-> <<"mail", id>>]
RemoteConfig(id) == [id |-> id, name |-> <<"terminal", id>>]

\* read('res.partner', ids): the records of the ids that exist
RemoteReadPartners(ids) ==
    LET keep(x) == x \in remote_partners
        found == SelectSeq(ids, keep)
    IN  [k \in 1..Len(found) |-> RemotePartner(found[k])]

RemoteReadConfigs(ids) == [k \in 1..Len(ids) |-> RemoteConfig(ids[k])]

\* a variant that keeps one entry per order, without list(set(...))
CollectIdsNoDedup(os, field) ==
    LET referenced(o) == Truthy(NormalizeRef(o[field]))
        kept == SelectSeq(os, referenced)
    IN  [k \in 1..Len(kept) |-> NormalizeRef(kept[k][field]).n]

\* the truthy normalised ids of one reference field over all orders, deduplicated
CollectIds(os, field) ==
    SortedSeq({NormalizeRef(os[k][field]).n :
                  k \in {j \in 1..Len(os) : Truthy(NormalizeRef(os[j][field]))}})

\* the mobile of every customer record goes through format_mobile_number
FormatPartners(ps) == [k \in 1..Len(ps) |->
                         [ps[k] EXCEPT !.mobile = format_mobile_number(ps[k].mobile)]]

\* the loop over orders that collects and deduplicates the two id lists
RelatedCollect ==
    /\ op = "related" /\ pc = "rel_start"
    /\ partner_ids' = CollectIds(orders, "partner_id")
    /\ config_ids' = CollectIds(orders, "config_id")
    /\ partners' = <<>>
    /\ i' = 0
    /\ pc' = IF CollectIds(orders, "partner_id") # <<>> THEN "rel_partners" ELSE "rel_configs"
    /\ UNCHANGED <<inputs, bookVars, runVars, scanVars, orders, rpc_calls, progress, errors, result>>

\* one iteration of the batched customer read
RelatedReadPartners ==
    /\ op = "related" /\ pc = "rel_partners"
    /\ LET batch_ids == BatchIds(partner_ids, i)
           batch_partners == RemoteReadPartners(batch_ids) IN
        /\ rpc_calls' = Append(rpc_calls, ReadCall("res.partner", batch_ids, Len(batch_partners)))
        /\ partners' = IF Len(batch_partners) > 0 THEN partners \o batch_partners ELSE partners
    /\ i' = i + read_batch_size
    /\ pc' = IF i + read_batch_size < Len(partner_ids) THEN "rel_partners" ELSE "rel_configs"
    /\ UNCHANGED <<inputs, bookVars, runVars, scanVars, orders, partner_ids, config_ids, progress, errors, result>>

\* a customer read raises
RelatedPartnersRaise ==
    /\ op = "related" /\ pc = "rel_partners"
    /\ rpc_calls' = Append(rpc_calls, ReadCall("res.partner", BatchIds(partner_ids, i), -1))
    /\ FetchExcept("Error fetching related data", <<<<>>, <<>>>>)
    /\ UNCHANGED <<inputs, bookVars, runVars, scanVars, i, orders, relVars, progress>>

\* the terminal read (one call with every id), the phone formatting and the return
RelatedReadConfigs ==
    /\ op = "related" /\ pc = "rel_configs"
    /\ config_ids # <<>>
    /\ LET configs == RemoteReadConfigs(config_ids) IN
        /\ rpc_calls' = Append(rpc_calls, ReadCall("pos.config", config_ids, Len(configs)))
        /\ result' = <<DictOf(FormatPartners(partners)), DictOf(configs)>>
    /\ pc' = "returned"
    /\ UNCHANGED <<inputs, bookVars, runVars, scanVars, i, orders, relVars, progress, errors>>

\* no terminal id to read: the phone formatting and the return
RelatedReturn ==
    /\ op = "related" /\ pc = "rel_configs"
    /\ config_ids = <<>>
    /\ result' = <<DictOf(FormatPartners(partners)), <<>>>>
    /\ pc' = "returned"
    /\ UNCHANGED <<inputs, bookVars, runVars, scanVars, i, orders, relVars, rpc_calls, progress, errors>>

\* the terminal read raises
RelatedConfigsRaise ==
    /\ op = "related" /\ pc = "rel_configs"
    /\ config_ids # <<>>
    /\ rpc_calls' = Append(rpc_calls, ReadCall("pos.config", config_ids, -1))
    /\ FetchExcept("Error fetching related data", <<<<>>, <<>>>>)
    /\ UNCHANGED <<inputs, bookVars, runVars, scanVars, i, orders, relVars, progress>>

----------------------------------------------------------------------------
(* fetch_pos_configs *)

BranchOptions == {"TN", "CBE", "MLM", "HYD", "JYR", "Vizag", "Saree Trails"}

\* BRANCH_KEYWORDS.get(branch_name, [branch_name])
Keywords(branch) ==
    IF branch = "CBE" THEN <<<<"C", "B">>, <<"C", "B", "E">>>>
    ELSE IF branch = "TN" THEN <<<<"T", "N">>>>
    ELSE IF branch = "MLM" THEN <<<<"M", "L", "M">>>>
    ELSE IF branch = "HYD" THEN <<<<"H", "Y", "D">>>>
    ELSE IF branch = "JYR" THEN <<<<"J", "Y", "R">>>>
    ELSE IF branch = "Vizag" THEN <<<<"V", "i", "z", "a", "g">>, <<"V", "Z", "G">>>>
    ELSE IF branch = "Saree Trails" THEN <<<<"P", "U", "N", "E">>>>
    ELSE <<>>

LocalExpo == <<"l", "o", "c", "a", "l", " ", "e", "x", "p", "o">>

\* the pos.config records the remote may hold
TerminalPool ==
    <<
      [id |-> 1, name |-> <<"T", "N", " ", "M", "a", "i", "n">>],
      [id |-> 2, name |-> <<"a", "n", "t", "e", "n", "n", "a">>],
      [id |-> 3, name |-> <<"S", "h", "o", "p", " ", "T", "N", " ", "2">>],
      [id |-> 4, name |-> <<"P", "u", "n", "e", " ", "L", "o", "c", "a", "l", " ", "E", "x", "p", "o">>],
      [id |-> 5, name |-> <<"P", "u", "n", "e", "X", " ", "L", "o", "c", "a", "l", " ", "E", "x", "p", "o">>],
      [id |-> 6, name |-> <<"L", "o", "c", "a", "l", " ", "E", "x", "p", "o", " ", "S", "t", "a", "l", "l">>],
      [id |-> 7, name |-> <<"C", "B", "E", " ", "C", "o", "u", "n", "t", "e", "r">>],
      [id |-> 8, name |-> <<" ", "V", "i", "z", "a", "g", " ", "1", " ">>],
      [id |-> 9, name |-> <<"P", "u", "n", "e", "x", " ", "S", "t", "o", "r", "e">>],
      [id |-> 10, name |-> <<"C", "h", "u", "t", "n", "e", "y">>]
    >>

\* ['name', 'ilike', kw] for some keyword, or 'Local Expo' for Saree Trails
ServerMatches(name, branch) ==
    \/ \E k \in 1..Len(Keywords(branch)) : Contains(Lower(name), Lower(Keywords(branch)[k]))
    \/ branch = "Saree Trails" /\ Contains(Lower(name), LocalExpo)

RemoteSearchRead(branch) ==
    LET hit(c) == ServerMatches(c.name, branch) IN SelectSeq(remote_terminals, hit)

\* f' {kw.lower()} ' in f' {name} ' for some keyword
HasToken(name, kws) ==
    \E k \in 1..Len(kws) : Contains(<<" ">> \o name \o <<" ">>, <<" ">> \o Lower(kws[k]) \o <<" ">>)

\* name.startswith(kw.lower()) for some keyword
StartsWithKeyword(name, kws) == \E k \in 1..Len(kws) : StartsWith(name, Lower(kws[k]))

\* a variant of the filter without the precedence of the Local Expo rule
AcceptConfigAnyRule(config, branch) ==
    LET name == Lower(Strip(config.name))
        kws == Keywords(branch)
    IN  name # <<>> /\ (StartsWithKeyword(name, kws) \/ HasToken(name, kws))

\* the client-side filter applied to one record
AcceptConfig(config, branch) ==
    LET name == Lower(Strip(config.name))
        kws == Keywords(branch)
    IN  /\ name # <<>>
        /\ IF Contains(name, LocalExpo) /\ branch = "Saree Trails"
           THEN HasToken(name, kws)
           ELSE StartsWithKeyword(name, kws) \/ HasToken(name, kws)

SearchReadCall(n) == [method |-> "search_read", model |-> "pos.config", n |-> n]

\* the query answers: filter and return
ConfigsQuery ==
    /\ op = "configs" /\ pc = "configs_call"
    /\ LET configs == RemoteSearchRead(branch_name)
           accept(c) == AcceptConfig(c, branch_name) IN
        /\ rpc_calls' = Append(rpc_calls, SearchReadCall(Len(configs)))
        /\ result' = SelectSeq(configs, accept)
    /\ pc' = "returned"
    /\ UNCHANGED <<inputs, bookVars, runVars, scanVars, i, orders, relVars, progress, errors>>

\* the query raises
ConfigsRaise ==
    /\ op = "configs" /\ pc = "configs_call"
    /\ rpc_calls' = Append(rpc_calls, SearchReadCall(-1))
    /\ FetchExcept("Error fetching POS configs", <<>>)
    /\ UNCHANGED <<inputs, bookVars, runVars, scanVars, i, orders, relVars, progress>>

----------------------------------------------------------------------------
(* Specification of the fetch operations *)

IdLists == UNION {{[k \in 1..n |-> k], [k \in 1..n |-> n + 1 - k]} : n \in 0..MaxTotal}

\* sequences over S of length at most n
SeqsUpTo(S, n) == UNION {[1..m -> S] : m \in 0..n}

\* the shapes a reference field arrives in: null (None or False), bare id, [id, label]
RefFields(ids) ==
    {None, FalseV} \cup {IntV(c) : c \in ids} \cup {ListV(<<c, "label">>) : c \in ids}

Txn(p, c, a, d) == [partner_id |-> p, config_id |-> c, amount_total |-> a, date_order |-> d]

\* transactions of two terminals
RelatedTxns ==
    {Txn(p, c, 1, "2024-01-01 10:00:00") :
        p \in RefFields(1..MaxId), c \in {None, IntV(1), ListV(<<2, "label">>)}}

\* the locals of the operations that are not running
NoBook ==
    /\ detail_sheet = <<>> /\ customer_data = <<>> /\ summary_sheet = <<>>
    /\ date_data = <<>> /\ analysis_sheet = <<>> /\ chart = <<>>

\* the script body of main has not run
NoMain ==
    /\ today = 0 /\ from_date = 0 /\ to_date = 0
    /\ pos_configs = <<>> /\ selected_configs = Unbound /\ button = FALSE /\ domain = <<>>

NoRun == df_data = <<>> /\ preview_data = <<>> /\ shown = <<>> /\ NoMain

NoFetch ==
    /\ order_ids = <<>> /\ offset = 0 /\ i = 0
    /\ partner_ids = <<>> /\ config_ids = <<>> /\ partners = <<>>
    /\ rpc_calls = <<>> /\ progress = <<>>

Idle ==
    /\ offset = 0 /\ i = 0
    /\ partner_ids = <<>> /\ config_ids = <<>> /\ partners = <<>>
    /\ rpc_calls = <<>> /\ errors = <<>> /\ result = <<>>
    /\ partner_dict = <<>> /\ config_dict = <<>> /\ mobile = <<>>
    /\ NoBook /\ NoRun

NoRemote ==
    /\ remote_ids = <<>> /\ remote_partners = {}
    /\ branch_name = "TN" /\ remote_terminals = <<>>

InitConfigs ==
    /\ op = "configs" /\ pc = "configs_call"
    /\ order_batch_size = 1 /\ read_batch_size = 1
    /\ remote_ids = <<>> /\ remote_partners = {}
    /\ branch_name \in BranchOptions
    /\ \E keep \in SUBSET (1..Len(TerminalPool)) :
          remote_terminals = LET in(c) == c.id \in keep IN SelectSeq(TerminalPool, in)
    /\ order_ids = <<>> /\ orders = <<>> /\ progress = <<>>
    /\ Idle

InitIds ==
    /\ op = "ids" /\ pc = "ids_loop"
    /\ order_batch_size \in 1..MaxBatch
    /\ read_batch_size = 1
    /\ remote_ids \in IdLists /\ remote_partners = {}
    /\ branch_name = "TN" /\ remote_terminals = <<>>
    /\ order_ids = <<>> /\ orders = <<>> /\ progress = <<<<0, 1>>>>
    /\ Idle

InitDetails ==
    /\ op = "details" /\ pc = "details_loop"
    /\ order_batch_size = 1
    /\ read_batch_size \in 1..MaxBatch
    /\ NoRemote
    /\ order_ids \in IdLists /\ orders = <<>> /\ progress = <<<<0, 1>>>>
    /\ Idle

InitRelated ==
    /\ op = "related" /\ pc = "rel_start"
    /\ order_batch_size = 1
    /\ read_batch_size \in 1..MaxBatch
    /\ remote_ids = <<>> /\ remote_partners \in SUBSET (1..MaxId)
    /\ branch_name = "TN" /\ remote_terminals = <<>>
    /\ order_ids = <<>> /\ orders \in SeqsUpTo(RelatedTxns, MaxOrders) /\ progress = <<>>
    /\ Idle

InitFetch == InitConfigs \/ InitIds \/ InitDetails \/ InitRelated

NextFetch ==
    \/ ConfigsQuery
    \/ ConfigsRaise
    \/ IdsPage
    \/ IdsLastPage
    \/ IdsRaise
    \/ DetailsRead
    \/ DetailsReturn
    \/ DetailsRaise
    \/ RelatedCollect
    \/ RelatedReadPartners
    \/ RelatedPartnersRaise
    \/ RelatedReadConfigs
    \/ RelatedReturn
    \/ RelatedConfigsRaise

SpecFetch == InitFetch /\ [][NextFetch]_vars

----------------------------------------------------------------------------
(* Properties of the fetch operations, checked under SpecFetch *)

Last(s) == s[Len(s)]

IsPrefix(s, t) == Len(s) <= Len(t) /\ SubSeq(t, 1, Len(s)) = s

\* the call that raised is recorded with n = -1
Raised(call) == call.n = -1

ScanSucceeded == op = "ids" /\ pc = "returned" /\ errors = <<>>

\* C1: against a remote that answers search(offset, limit) with the slice
\* [offset, offset+limit) of a fixed id list, a scan that completes returns exactly
\* that list: every id once, in order, for every total (0, short page, total equal
\* to the page size, several pages).
C1_ScanReturnsList == ScanSucceeded => result = remote_ids

\* a completed scan over exactly two full pages
C1_Witness ==
    /\ ScanSucceeded
    /\ order_batch_size = 2 /\ Len(remote_ids) = 2 * order_batch_size
    /\ result = remote_ids

\* C2 (as stated): once a search call has returned fewer than order_batch_size ids, no
\* further search call is issued in that scan.
C2_StopsOnShortPage ==
    op = "ids" =>
        \A k \in 1..(Len(rpc_calls) - 1) : ~(rpc_calls[k].n < rpc_calls[k].limit)

\* C2 (amended): the scan stops on an empty page only. Every search call that is followed
\* by another one returned at least one id, and the last call of a completed scan returned
\* no id; a short non-empty page does not stop the scan, one more call follows it, and,
\* the remote's list being fixed, that call is the last.
C2_StopsOnEmptyPage ==
    op = "ids" =>
        /\ \A k \in 1..(Len(rpc_calls) - 1) :
              /\ rpc_calls[k].n > 0
              /\ rpc_calls[k].n < rpc_calls[k].limit => k = Len(rpc_calls) - 1
        /\ ScanSucceeded => Last(rpc_calls).n = 0

\* a completed scan in which a short non-empty page was followed by another call
C2_Witness ==
    /\ ScanSucceeded
    /\ \E k \in 1..(Len(rpc_calls) - 1) :
          rpc_calls[k].n > 0 /\ rpc_calls[k].n < rpc_calls[k].limit

\* C3: when the read of one group fails in fetch_order_details, the records of the groups
\* read before it are still part of the returned result.
C3_EarlierGroupsKept ==
    (op = "details" /\ pc = "returned") => IsPrefix(orders, result)

\* What fetch_order_details does instead: when the read of one group fails it returns the
\* empty list, and the records of the groups read before it, still held in the
\* accumulator, are lost. Only when no read fails does the result hold the records of
\* every group, in order.
DetailsFailureReturnsNoGroup ==
    (op = "details" /\ pc = "returned") =>
        /\ errors # <<>> =>
              /\ result = <<>>
              /\ orders = RemoteReadOrders(SubSeq(order_ids, 1, i))
        /\ errors = <<>> => result = RemoteReadOrders(order_ids)

\* the read of a later group failed after an earlier group had been accumulated
DetailsFailureAfterGroup ==
    /\ op = "details" /\ pc = "returned"
    /\ errors # <<>>
    /\ Len(orders) >= 2 /\ i >= 2
    /\ result = <<>>

EmptyResult(o) == IF o = "related" THEN <<<<>>, <<>>>> ELSE <<>>

\* C4: in each of the four fetch operations a raising RPC call is the last call issued,
\* one error is reported, the operation returns its empty result, and no exception
\* leaves the function.
C4_RaiseReturnsEmpty ==
    /\ pc # "raised"
    /\ \A k \in 1..Len(rpc_calls) :
          Raised(rpc_calls[k]) =>
              /\ k = Len(rpc_calls)
              /\ pc = "returned"
              /\ Len(errors) = 1
              /\ result = EmptyResult(op)

\* the terminal read of fetch_related_data raised after customers had been read
C4_Witness ==
    /\ op = "related" /\ pc = "returned"
    /\ partners # <<>>
    /\ Len(rpc_calls) >= 2 /\ Raised(Last(rpc_calls))
    /\ result = <<<<>>, <<>>>>

\* the words of a name: its maximal runs of characters other than the space
Tokens(name) ==
    LET word(a, b) ==
            /\ a <= b
            /\ \A k \in a..b : name[k] # " "
            /\ a = 1 \/ name[a - 1] = " "
            /\ b = Len(name) \/ name[b + 1] = " "
    IN  {SubSeq(name, ab[1], ab[2]) :
            ab \in {x \in (1..Len(name)) \X (1..Len(name)) : word(x[1], x[2])}}

\* the branch rule in the words of the specification, on a lowercased, trimmed name
PassesBranchRule(name, branch) ==
    LET kws == {Lower(Keywords(branch)[k]) : k \in 1..Len(Keywords(branch))}
        token == \E kw \in kws : kw \in Tokens(name)
        starts == \E kw \in kws : StartsWith(name, kw)
    IN  IF branch = "Saree Trails" /\ Contains(name, LocalExpo)
        THEN token
        ELSE starts \/ token

ConfigsSucceeded == op = "configs" /\ pc = "returned" /\ errors = <<>>

\* C13: fetch_pos_configs returns a terminal delivered by the server query if and only if
\* its lowercased, trimmed name passes the branch rule (for Saree Trails and a name
\* containing 'local expo': a keyword as a space-bounded token; otherwise: the name starts
\* with a keyword or holds one as a space-bounded token); the terminals are returned in
\* the order delivered, and a name that holds the keyword only inside or at the end of a
\* longer word is not returned.
C13_BranchRule ==
    ConfigsSucceeded =>
        LET delivered == RemoteSearchRead(branch_name)
            passes(c) == PassesBranchRule(Lower(Strip(c.name)), branch_name)
        IN  /\ result = SelectSeq(delivered, passes)
            /\ \A k \in 1..Len(result) :
                  \E kw \in {Lower(Keywords(branch_name)[j]) : j \in 1..Len(Keywords(branch_name))} :
                      \/ StartsWith(Lower(Strip(result[k].name)), kw)
                      \/ kw \in Tokens(Lower(Strip(result[k].name)))

\* Saree Trails: 'Pune Local Expo' is returned, 'PuneX Local Expo' (which starts with the
\* keyword) and 'Local Expo Stall' are delivered and dropped
C13_Witness ==
    /\ ConfigsSucceeded
    /\ branch_name = "Saree Trails"
    /\ {4, 5, 6} \subseteq {RemoteSearchRead(branch_name)[k].id :
                               k \in 1..Len(RemoteSearchRead(branch_name))}
    /\ {result[k].id : k \in 1..Len(result)} \cap {4, 5, 6} = {4}

\* comparison of two progress values <<numerator, denominator>>
FracLeq(f, g) == f[1] * g[2] <= g[1] * f[2]
IsOne(f) == f[1] = f[2]

\* offsets around the point where offset / (offset + 100) crosses the cap 0.95
CapOffsets == {0, 1, 1899, 1900, 1901, 5000}

\* C14: during one fetch phase the progress values reported never decrease; in the id
\* scan every value reported before the scan completes is strictly below 1.0 and 1.0 is
\* reported once the scan has completed; in the record read a value of 1.0 is reported
\* only when the last group has been read.
C14_ProgressMonotone ==
    op \in {"ids", "details"} =>
        /\ \A k \in 1..(Len(progress) - 1) : FracLeq(progress[k], progress[k + 1])
        /\ op = "ids" =>
              /\ \A k \in 1..Len(progress) :
                    IsOne(progress[k]) => k = Len(progress) /\ ScanSucceeded
              /\ ScanSucceeded => IsOne(Last(progress))
              /\ \A a, b \in CapOffsets :
                    /\ ~IsOne(ScanProgress(a))
                    /\ a <= b => FracLeq(ScanProgress(a), ScanProgress(b))
        /\ op = "details" =>
              /\ \A k \in 1..Len(progress) : IsOne(progress[k]) => i >= Len(order_ids)
              /\ (pc = "returned" /\ errors = <<>>) => IsOne(Last(progress))

\* a scan of several pages: 0, two values below 1.0, then 1.0 at the return
C14_Witness ==
    /\ ScanSucceeded
    /\ Len(progress) >= 4
    /\ progress[1] = <<0, 1>>
    /\ ~IsOne(progress[Len(progress) - 1])
    /\ IsOne(Last(progress))

\* the positions of the read calls of one model in the call log
ReadsOf(model) ==
    {k \in 1..Len(rpc_calls) : rpc_calls[k].method = "read" /\ rpc_calls[k].model = model}

\* the calls of the model whose id list holds id
RequestsOf(model, id) ==
    {k \in ReadsOf(model) : \E j \in 1..Len(rpc_calls[k].ids) : rpc_calls[k].ids[j] = id}

RelatedSucceeded == op = "related" /\ pc = "returned" /\ errors = <<>>

\* C16: every bulk read call that fetch_related_data issues, for customers and for
\* terminals alike, carries at most read_batch_size ids.
C16_ReadsCarryAtMostBatch ==
    op = "related" =>
        \A k \in ReadsOf("res.partner") \cup ReadsOf("pos.config") :
            Len(rpc_calls[k].ids) <= read_batch_size

\* what the code does: the customer reads are cut into groups of at most read_batch_size
\* ids, the terminals are read in one call that carries every terminal id
RelatedReadsAsCoded ==
    op = "related" =>
        /\ \A k \in ReadsOf("res.partner") : Len(rpc_calls[k].ids) \in 1..read_batch_size
        /\ Cardinality(ReadsOf("pos.config")) <= 1
        /\ \A k \in ReadsOf("pos.config") : rpc_calls[k].ids = config_ids

\* the terminals of the orders outnumber read_batch_size and are read in one call
TerminalReadExceedsBatch ==
    /\ RelatedSucceeded
    /\ \E k \in ReadsOf("pos.config") : Len(rpc_calls[k].ids) > read_batch_size

\* the customer ids the transactions reference
ReferencedCustomers ==
    {NormalizeRef(orders[k].partner_id).n :
        k \in {j \in 1..Len(orders) : Truthy(NormalizeRef(orders[j].partner_id))}}

\* C17: in one run of fetch_related_data no customer id is requested in more than one
\* read call and no id appears twice in a call, only ids that some transaction references
\* are requested (never a null reference), and in a run that completes each referenced id
\* has been requested in exactly one call, however many transactions reference it.
C17_CustomerReadOnce ==
    op = "related" =>
        /\ \A k \in ReadsOf("res.partner") :
              /\ \A j \in 1..Len(rpc_calls[k].ids) :
                    /\ rpc_calls[k].ids[j] \in ReferencedCustomers
                    /\ rpc_calls[k].ids[j] \in 1..MaxId
              /\ \A j1, j2 \in 1..Len(rpc_calls[k].ids) :
                    rpc_calls[k].ids[j1] = rpc_calls[k].ids[j2] => j1 = j2
        /\ \A id \in 1..MaxId : Cardinality(RequestsOf("res.partner", id)) <= 1
        /\ RelatedSucceeded =>
              \A id \in ReferencedCustomers : Cardinality(RequestsOf("res.partner", id)) = 1

\* customer 1 is referenced by two transactions, as a pair and as a bare id, next to no
\* other customer: one read call, for [1]
C17_Witness ==
    /\ RelatedSucceeded
    /\ Len(orders) = 2
    /\ orders[1].partner_id = ListV(<<1, "label">>) /\ orders[2].partner_id = IntV(1)
    /\ Cardinality(ReadsOf("res.partner")) = 1
    /\ \E k \in ReadsOf("res.partner") : rpc_calls[k].ids = <<1>>

----------------------------------------------------------------------------
(* The id scan as a sequential program: each step of the loop is eventually taken *)

NextScan ==
    \/ IdsPage
    \/ IdsLastPage
    \/ IdsRaise

SpecScan == InitIds /\ [][NextScan]_vars /\ WF_vars(NextScan)

\* number of pages of at most b ids that hold n ids
CeilDiv(n, b) == (n + b - 1) \div b

\* C20: the id scan terminates for every finite list of matching ids: with a page size
\* of at least 1 and a remote that returns at most page-size ids per call and an empty
\* page once the offset reaches the total, the function eventually returns, and a scan
\* that no failure cut short has issued one search call per page of the total plus the
\* call that found the empty page.
C20_ScanTerminates ==
    <>(/\ pc = "returned"
       /\ errors = <<>> =>
             Len(rpc_calls) = CeilDiv(Len(remote_ids), order_batch_size) + 1)

\* a scan of four or more ids, one per page, has returned after total + 1 search calls
C20_Witness ==
    /\ ScanSucceeded
    /\ order_batch_size = 1
    /\ Len(remote_ids) >= 4
    /\ Len(rpc_calls) = Len(remote_ids) + 1
    /\ \A k \in 1..Len(rpc_calls) : rpc_calls[k].limit >= rpc_calls[k].n

----------------------------------------------------------------------------
(* Specification of format_mobile_number on its own *)

HeadChars == {"0", "1", "5", "9", "-", "+"}

\* digit strings of 0, 7, 8, 9 and 10 digits that follow the free prefix
TailDigits ==
    LET ten == <<"1", "2", "3", "4", "5", "6", "7", "8", "9", "8">>
    IN  {<<>>} \cup {SubSeq(ten, 1, n) : n \in 7..10}

MobileInputs == {h \o t : h \in SeqsUpTo(HeadChars, MaxHead), t \in TailDigits} \ {<<>>}

InitMobile ==
    /\ op = "mobile" /\ pc = "mobile_call"
    /\ order_batch_size = 1 /\ read_batch_size = 1
    /\ NoRemote /\ NoFetch /\ NoBook /\ NoRun
    /\ partner_dict = <<>> /\ config_dict = <<>>
    /\ mobile \in MobileInputs
    /\ orders = <<>> /\ errors = <<>> /\ result = <<>>

\* the call format_mobile_number(mobile)
FormatMobile ==
    /\ op = "mobile" /\ pc = "mobile_call"
    /\ result' = format_mobile_number(mobile)
    /\ pc' = "returned"
    /\ UNCHANGED <<inputs, bookVars, runVars, fetchVars, orders, errors>>

NextMobile == FormatMobile

SpecMobile == InitMobile /\ [][NextMobile]_vars

\* C8: for a non-empty input, after removing the non-digits and one leading 0: exactly 10
\* digits give '+91' and the digits, whatever the first digits are; exactly 12 digits
\* starting with 91 give '+' and the digits; every other input is returned unchanged.
C8_FormatByLength ==
    (op = "mobile" /\ pc = "returned") =>
        LET cleaned == Cleaned(mobile) IN
            result = IF Len(cleaned) = 10 THEN <<"+", "9", "1">> \o cleaned
                     ELSE IF Len(cleaned) = 12 /\ StartsWith(cleaned, <<"9", "1">>)
                          THEN <<"+">> \o cleaned
                     ELSE mobile

----------------------------------------------------------------------------
(* generate_excel *)

EmptyStr == <<>>

\* dict.get(field, '') on a customer or terminal record (or on {})
GetField(rec, field) == IF field \in DOMAIN rec THEN rec[field] ELSE EmptyStr

\* datetime.strptime(s, "%Y-%m-%d %H:%M:%S"): the day of a well-formed timestamp,
\* 0 when strptime raises ValueError / TypeError
DayOf(ts) == IF ts = "2024-01-01 10:00:00" THEN 1
             ELSE IF ts = "2024-01-02 09:30:00" THEN 2
             ELSE 0
Parses(ts) == DayOf(ts) # 0

\* partner_dict.get(partner_id, {}) if partner_id else {}
Lookup(d, id) == IF Truthy(id) THEN DictGet(d, id.n) ELSE EmptyRecord

\* `partner_id or ""`
OrEmpty(id) == IF Truthy(id) THEN id ELSE [t |-> "str", s |-> EmptyStr]

\* f"=SUM('<sheet>'!<col>5:<col>{last_row})"
SumFormula(sheet, col, last_row) == [sheet |-> sheet, col |-> col, first |-> 5, last |-> last_row]

\* the 0-based rows a formula range <col><first>:<col><last> covers in the spreadsheet:
\* a range is the rectangle between its two corners, whichever is written first
RefRows(f) == {r - 1 : r \in Min(f.first, f.last)..Max(f.first, f.last)}

\* the row written for one order of the detail sheet (enumerate(orders, 4))
DetailRow(order) ==
    LET partner_id == NormalizeRef(order.partner_id)
        partner == Lookup(partner_dict, partner_id)
        config_id == NormalizeRef(order.config_id)
        config == Lookup(config_dict, config_id)
    IN  [kind |-> "data",
         date |-> IF Parses(order.date_order) THEN order.date_order ELSE "now",
         terminal |-> GetField(config, "name"),
         partner_id |-> OrEmpty(partner_id),
         name |-> GetField(partner, "name"),
         mobile |-> GetField(partner, "mobile"),
         email |-> GetField(partner, "email"),
         amount |-> order.amount_total,
         config_id |-> OrEmpty(config_id)]

DetailLastRow(os) == Len(os) + 4

\* header at row 3, one row per order from row 4, then the total row at last_row
DetailSheet(os) ==
    [r \in {3} \cup (4..(Len(os) + 3)) \cup {DetailLastRow(os)} |->
        IF r = 3 THEN [kind |-> "header"]
        ELSE IF r = DetailLastRow(os)
             THEN [kind |-> "total", formula |-> SumFormula("Order Details", "H", DetailLastRow(os))]
             ELSE DetailRow(os[r - 3])]

\* position of a customer id in the fold, 0 when it has no entry yet
IndexOf(acc, id) == IF \E k \in 1..Len(acc) : acc[k].id = id
                    THEN CHOOSE k \in 1..Len(acc) : acc[k].id = id
                    ELSE 0

AddOrderOverwrite(acc, order) ==
    LET partner_id == NormalizeRef(order.partner_id)
        partner == Lookup(partner_dict, partner_id)
        entry == [id |-> partner_id.n, name |-> GetField(partner, "name"),
                  mobile |-> GetField(partner, "mobile"), email |-> GetField(partner, "email"),
                  count |-> 1, total |-> order.amount_total]
    IN  IF ~Truthy(partner_id) THEN acc
        ELSE IF IndexOf(acc, partner_id.n) = 0 THEN Append(acc, entry)
        ELSE [acc EXCEPT ![IndexOf(acc, partner_id.n)] =
                 [entry EXCEPT !.count = @ + acc[IndexOf(acc, partner_id.n)].count]]

\* a variant of the fold that puts a new customer in front of the earlier ones
AddOrderNewestFirst(acc, order) ==
    LET partner_id == NormalizeRef(order.partner_id)
        partner == Lookup(partner_dict, partner_id)
        entry == [id |-> partner_id.n, name |-> GetField(partner, "name"),
                  mobile |-> GetField(partner, "mobile"), email |-> GetField(partner, "email"),
                  count |-> 1, total |-> order.amount_total]
    IN  IF ~Truthy(partner_id) THEN acc
        ELSE IF IndexOf(acc, partner_id.n) = 0 THEN <<entry>> \o acc
        ELSE [acc EXCEPT ![IndexOf(acc, partner_id.n)] =
                 [entry EXCEPT !.count = @ + acc[IndexOf(acc, partner_id.n)].count,
                               !.total = @ + acc[IndexOf(acc, partner_id.n)].total]]

\* one iteration of the customer fold: `if partner_id:` update customer_data[partner_id]
AddOrder(acc, order) ==
    LET partner_id == NormalizeRef(order.partner_id)
        partner == Lookup(partner_dict, partner_id)
        entry == [id |-> partner_id.n, name |-> GetField(partner, "name"),
                  mobile |-> GetField(partner, "mobile"), email |-> GetField(partner, "email"),
                  count |-> 1, total |-> order.amount_total]
    IN  IF ~Truthy(partner_id) THEN acc
        ELSE IF IndexOf(acc, partner_id.n) = 0 THEN Append(acc, entry)
        ELSE [acc EXCEPT ![IndexOf(acc, partner_id.n)] =
                 [entry EXCEPT !.count = @ + acc[IndexOf(acc, partner_id.n)].count,
                               !.total = @ + acc[IndexOf(acc, partner_id.n)].total]]

\* customer_data after the loop over orders, in insertion order
RECURSIVE CustomerFold(_, _)
CustomerFold(os, n) == IF n = 0 THEN <<>> ELSE AddOrder(CustomerFold(os, n - 1), os[n])

SummaryLastRow(cd) == Len(cd) + 4

\* header at row 3, one row per customer from row 4, then the row with the two formulas
SummarySheet(cd) ==
    [r \in {3} \cup (4..(Len(cd) + 3)) \cup {SummaryLastRow(cd)} |->
        IF r = 3 THEN [kind |-> "header"]
        ELSE IF r = SummaryLastRow(cd)
             THEN [kind |-> "total",
                   count_formula |-> SumFormula("Customer Summary", "E", SummaryLastRow(cd)),
                   total_formula |-> SumFormula("Customer Summary", "F", SummaryLastRow(cd))]
             ELSE [kind |-> "data", id |-> cd[r - 3].id, name |-> cd[r - 3].name,
                   mobile |-> cd[r - 3].mobile, email |-> cd[r - 3].email,
                   count |-> cd[r - 3].count, total |-> cd[r - 3].total,
                   avg |-> IF cd[r - 3].count > 0 THEN <<cd[r - 3].total, cd[r - 3].count>>
                           ELSE <<0, 1>>]]

DayIndex(acc, day) == IF \E k \in 1..Len(acc) : acc[k].date = day
                      THEN CHOOSE k \in 1..Len(acc) : acc[k].date = day
                      ELSE 0

\* a variant of the daily fold that books an unparsable timestamp under day 0
AddDayCountAll(acc, order) ==
    LET day == DayOf(order.date_order)
    IN  IF DayIndex(acc, day) = 0
        THEN Append(acc, [date |-> day, count |-> 1, total |-> order.amount_total])
        ELSE [acc EXCEPT ![DayIndex(acc, day)] =
                 [@ EXCEPT !.count = @ + 1, !.total = @ + order.amount_total]]

\* one iteration of the daily fold: an order whose timestamp does not parse is skipped
AddDay(acc, order) ==
    LET day == DayOf(order.date_order)
    IN  IF ~Parses(order.date_order) THEN acc
        ELSE IF DayIndex(acc, day) = 0
             THEN Append(acc, [date |-> day, count |-> 1, total |-> order.amount_total])
        ELSE [acc EXCEPT ![DayIndex(acc, day)] =
                 [@ EXCEPT !.count = @ + 1, !.total = @ + order.amount_total]]

RECURSIVE DateFold(_, _)
DateFold(os, n) == IF n = 0 THEN <<>> ELSE AddDay(DateFold(os, n - 1), os[n])

\* sorted(date_data.keys())
SortedDates(dd) == SortedSeq({dd[k].date : k \in 1..Len(dd)})

\* header at row 3 and one row per day, ascending, from row 4
AnalysisSheet(dd) ==
    LET sorted_dates == SortedDates(dd)
        data(r) == dd[DayIndex(dd, sorted_dates[r - 3])]
    IN  [r \in {3} \cup (4..(Len(dd) + 3)) |->
            IF r = 3 THEN [kind |-> "header"]
            ELSE [kind |-> "data", date |-> data(r).date, count |-> data(r).count,
                  total |-> data(r).total,
                  avg |-> IF data(r).count > 0 THEN <<data(r).total, data(r).count>>
                          ELSE <<0, 1>>]]

\* the two series of the combined chart, bound to rows 5..len(sorted_dates)+4
Chart(dd) == IF Len(dd) = 0 THEN <<>>
             ELSE <<[type |-> "column", col |-> "C", first |-> 5, last |-> Len(dd) + 4],
                    [type |-> "line", col |-> "D", first |-> 5, last |-> Len(dd) + 4]>>

\* the "Order Details" sheet: rows and total formula
ExcelDetailSheet ==
    /\ pc = "xl_detail"
    /\ detail_sheet' = DetailSheet(orders)
    /\ pc' = "xl_summary"
    /\ UNCHANGED <<inputs, fetchVars, orders, customer_data, summary_sheet, date_data,
                   analysis_sheet, chart, runVars, errors, result>>

\* the "Customer Summary" sheet: the fold, the rows and the two formulas
ExcelSummarySheet ==
    /\ pc = "xl_summary"
    /\ customer_data' = CustomerFold(orders, Len(orders))
    /\ summary_sheet' = SummarySheet(CustomerFold(orders, Len(orders)))
    /\ pc' = "xl_analysis"
    /\ UNCHANGED <<inputs, fetchVars, orders, detail_sheet, date_data, analysis_sheet, chart,
                   runVars, errors, result>>

\* the "Sales Analysis" sheet: the daily fold, the rows and the chart
ExcelAnalysisSheet ==
    /\ pc = "xl_analysis"
    /\ date_data' = DateFold(orders, Len(orders))
    /\ analysis_sheet' = AnalysisSheet(DateFold(orders, Len(orders)))
    /\ chart' = Chart(DateFold(orders, Len(orders)))
    /\ pc' = "xl_close"
    /\ UNCHANGED <<inputs, fetchVars, orders, detail_sheet, customer_data, summary_sheet,
                   runVars, errors, result>>

\* workbook.close() and the return of the buffer
ExcelClose ==
    /\ pc = "xl_close"
    /\ result' = [workbook |-> <<detail_sheet, summary_sheet, analysis_sheet>>, chart |-> chart]
    /\ pc' = IF op = "run" THEN "run_download" ELSE "returned"
    /\ UNCHANGED <<inputs, fetchVars, orders, bookVars, runVars, errors>>

\* a variant of the except clause that hands back the buffer as far as it was written
ExcelExceptReturnPartial ==
    /\ errors' = Append(errors, "Error generating Excel report")
    /\ result' = [workbook |-> <<detail_sheet, summary_sheet, analysis_sheet>>, chart |-> chart]
    /\ pc' = IF op = "run" THEN "run_download" ELSE "returned"
    /\ UNCHANGED <<bookVars, shown>>

\* the except clause of generate_excel: st.error and `raise`; the frame and its workbook
\* are dropped, and in a run the exception lands in the except clause of the handler
ExcelExcept ==
    /\ errors' = IF op = "run"
                 THEN errors \o <<"Error generating Excel report", "Error generating report">>
                 ELSE Append(errors, "Error generating Excel report")
    /\ shown' = IF op = "run" THEN Append(shown, "troubleshooting") ELSE shown
    /\ result' = result
    /\ pc' = IF op = "run" THEN "run_end" ELSE "raised"
    /\ detail_sheet' = <<>> /\ customer_data' = <<>> /\ summary_sheet' = <<>>
    /\ date_data' = <<>> /\ analysis_sheet' = <<>> /\ chart' = <<>>

\* a step of the workbook construction raises (a sheet write, the chart, workbook.close())
ExcelRaise ==
    /\ pc \in {"xl_detail", "xl_summary", "xl_analysis", "xl_close"}
    /\ ExcelExcept
    /\ UNCHANGED <<inputs, fetchVars, orders, df_data, preview_data>>

----------------------------------------------------------------------------
(* Specification of generate_excel on its own *)

\* a refund and a sale
Amounts == {-1, 1}

\* terminal reference and timestamp of a transaction, chosen together
Variants == {[c |-> ListV(<<1, "label">>), ts |-> "2024-01-01 10:00:00"],
             [c |-> None, ts |-> "2024-01-02 09:30:00"],
             [c |-> IntV(1), ts |-> "2024-01-01"]}

ExcelTxns == {Txn(p, v.c, a, v.ts) : p \in RefFields(1..MaxId), a \in Amounts, v \in Variants}

\* the customer map of the join over the customers with an id in S
PartnerDictOver(S) ==
    [id \in S |-> [RemotePartner(id) EXCEPT !.mobile = format_mobile_number(@)]]

ConfigDictOver(S) == [id \in S |-> RemoteConfig(id)]

InitExcel ==
    /\ op = "excel" /\ pc = "xl_detail"
    /\ order_batch_size = 1 /\ read_batch_size = 1
    /\ NoRemote /\ NoFetch /\ NoBook /\ NoRun
    /\ partner_dict = PartnerDictOver(1..(MaxId - 1))
    /\ config_dict = ConfigDictOver({1})
    /\ mobile = <<>>
    /\ orders \in SeqsUpTo(ExcelTxns, MaxOrders)
    /\ errors = <<>> /\ result = <<>>

NextExcel ==
    \/ ExcelDetailSheet
    \/ ExcelSummarySheet
    \/ ExcelAnalysisSheet
    \/ ExcelClose
    \/ ExcelRaise

SpecExcel == InitExcel /\ [][NextExcel]_vars

----------------------------------------------------------------------------
(* Properties of generate_excel, checked under SpecExcel *)

\* a sheet holds its header row as soon as it has been written
DetailWritten == detail_sheet # <<>>
SummaryWritten == summary_sheet # <<>>

DataRows(sheet) == {r \in DOMAIN sheet : sheet[r].kind = "data"}

\* sum of amount_total over the orders at the positions ks
RECURSIVE SumAmounts(_, _)
SumAmounts(os, ks) == IF ks = {} THEN 0
                      ELSE LET k == CHOOSE x \in ks : TRUE
                           IN  os[k].amount_total + SumAmounts(os, ks \ {k})

\* sum of the total cell over the given rows of a sheet
RECURSIVE SumRows(_, _)
SumRows(sheet, rows) == IF rows = {} THEN 0
                        ELSE LET r == CHOOSE x \in rows : TRUE
                             IN  sheet[r].total + SumRows(sheet, rows \ {r})

Resolved(os) == {k \in 1..Len(os) : Truthy(NormalizeRef(os[k].partner_id))}
WalkIn(os) == (1..Len(os)) \ Resolved(os)

\* what the claim says the normalisation of one field is
NormalizedAsSpecified(field) ==
    LET v == NormalizeRef(field) IN
        /\ v.t \in {"none", "bool", "int"}
        /\ field.t \in {"none", "bool"} => v = field /\ ~Truthy(v)
        /\ field.t = "int" => v = field
        /\ field.t = "list" => v = IntV(field.items[1])
        /\ NormalizeRef(v) = v

\* C6: the normalisation of a reference field is total on the three shapes (null -> null,
\* integer n -> n, [id, label] -> id), yields null (None or False) or an integer, and
\* applied to its own result returns it unchanged; the detail rows carry the normalised
\* ids.
C6_NormalizeRef ==
    DetailWritten =>
        \A k \in 1..Len(orders) :
            /\ NormalizedAsSpecified(orders[k].partner_id)
            /\ NormalizedAsSpecified(orders[k].config_id)
            /\ detail_sheet[k + 3].partner_id = OrEmpty(NormalizeRef(orders[k].partner_id))
            /\ detail_sheet[k + 3].partner_id.t \in {"int", "str"}
            /\ detail_sheet[k + 3].config_id.t \in {"int", "str"}

\* a workbook over a pair, a bare id and a null reference
C6_Witness ==
    /\ op = "excel" /\ pc = "returned"
    /\ Len(orders) = 2
    /\ orders[1].partner_id = ListV(<<2, "label">>) /\ orders[1].config_id = None
    /\ orders[2].partner_id = IntV(1)
    /\ detail_sheet[4].partner_id = IntV(2) /\ detail_sheet[5].partner_id = IntV(1)

\* C7 (as stated): for integer amounts of any sign, the sum of total over the customer
\* summary rows is at most the sum of amount over all transactions, with equality if and
\* only if every transaction has a resolved customer id.
C7_TotalsAtMostAll ==
    SummaryWritten =>
        LET cust == SumRows(summary_sheet, DataRows(summary_sheet))
            all == SumAmounts(orders, 1..Len(orders))
        IN  /\ cust <= all
            /\ (cust = all) <=> (WalkIn(orders) = {})

\* C7 (amended): the sum of total over the customer summary rows equals the sum of amount
\* over the transactions with a resolved customer id. So it is at most the sum over all
\* transactions when no walk-in transaction has a negative amount, it equals that sum
\* when every transaction has a resolved customer id, and when the two sums are equal the
\* walk-in amounts sum to zero.
C7_TotalsAreResolvedSum ==
    SummaryWritten =>
        LET cust == SumRows(summary_sheet, DataRows(summary_sheet))
            all == SumAmounts(orders, 1..Len(orders))
        IN  /\ cust = SumAmounts(orders, Resolved(orders))
            /\ (\A k \in WalkIn(orders) : orders[k].amount_total >= 0) => cust <= all
            /\ WalkIn(orders) = {} => cust = all
            /\ cust = all => SumAmounts(orders, WalkIn(orders)) = 0

\* a walk-in refund next to a customer sale: the customer rows sum to more than all rows
C7_Witness ==
    /\ SummaryWritten
    /\ \E k \in WalkIn(orders) : orders[k].amount_total < 0
    /\ Resolved(orders) # {}
    /\ SumRows(summary_sheet, DataRows(summary_sheet)) > SumAmounts(orders, 1..Len(orders))

\* C9: the SUM formula of the total row of "Order Details" covers exactly the amount cells
\* of the n data rows (1-based rows 5..n+4), not the header row and not its own cell, for
\* n = 0, n = 1 and n > 1.
C9_DetailTotalRange ==
    DetailWritten =>
        LET total_row == DetailLastRow(orders)
            f == detail_sheet[total_row].formula
        IN  /\ RefRows(f) = DataRows(detail_sheet)
            /\ DataRows(detail_sheet) = 4..(Len(orders) + 3)
            /\ 3 \notin RefRows(f)
            /\ total_row \notin RefRows(f)

\* C10: the two SUM formulas of the trailing row of "Customer Summary" cover exactly the
\* rows of the customers written above them, for any number of customers including zero,
\* and never the trailing row itself.
C10_SummaryTotalRange ==
    SummaryWritten =>
        LET total_row == SummaryLastRow(customer_data)
            fc == summary_sheet[total_row].count_formula
            ft == summary_sheet[total_row].total_formula
        IN  /\ RefRows(fc) = DataRows(summary_sheet)
            /\ RefRows(ft) = DataRows(summary_sheet)
            /\ total_row \notin RefRows(fc)
            /\ total_row \notin RefRows(ft)

AnalysisWritten == analysis_sheet # <<>>

\* the normalised customer id of the k-th order
CustomerOf(os, k) == NormalizeRef(os[k].partner_id).n

\* the positions of the orders of customer id
OrdersOf(os, id) == {k \in Resolved(os) : CustomerOf(os, k) = id}

\* position of the first order of customer id
FirstOrderOf(os, id) == CHOOSE k \in OrdersOf(os, id) : \A j \in OrdersOf(os, id) : k <= j

\* C11: the customer summary has one row for each distinct non-null customer id of the
\* transactions and no other row; the row's count is the number of transactions with that
\* id, its total the sum of their amounts, its average total / count with count > 0;
\* walk-in transactions add to no row; the rows are in order of each customer's first
\* transaction.
C11_CustomerRows ==
    SummaryWritten =>
        LET rows == DataRows(summary_sheet)
            ids == {CustomerOf(orders, k) : k \in Resolved(orders)}
        IN  /\ rows = 4..(Cardinality(ids) + 3)
            /\ {summary_sheet[r].id : r \in rows} = ids
            /\ \A r \in rows :
                  LET row == summary_sheet[r] IN
                      /\ row.count = Cardinality(OrdersOf(orders, row.id))
                      /\ row.count > 0
                      /\ row.total = SumAmounts(orders, OrdersOf(orders, row.id))
                      /\ row.avg = <<row.total, row.count>>
            /\ \A r1, r2 \in rows :
                  r1 < r2 => FirstOrderOf(orders, summary_sheet[r1].id)
                                < FirstOrderOf(orders, summary_sheet[r2].id)

\* customer 2 buys before customer 1: the rows are in that order, not in order of id
C11_Witness ==
    /\ SummaryWritten
    /\ Len(orders) = 2
    /\ Resolved(orders) = {1, 2}
    /\ CustomerOf(orders, 1) = 2 /\ CustomerOf(orders, 2) = 1
    /\ summary_sheet[4].id = 2 /\ summary_sheet[5].id = 1

\* sum of the count cell over the given rows of a sheet
RECURSIVE SumCounts(_, _)
SumCounts(sheet, rows) == IF rows = {} THEN 0
                          ELSE LET r == CHOOSE x \in rows : TRUE
                               IN  sheet[r].count + SumCounts(sheet, rows \ {r})

Parsable(os) == {k \in 1..Len(os) : Parses(os[k].date_order)}

\* C12: the daily table counts a transaction if and only if its timestamp parses: the sum
\* of order_count over the daily rows is the number of transactions with a parsable
\* timestamp (and each day's count is the number of its transactions), while every
\* transaction, parsable or not, has its own row in the detail sheet.
C12_DailyCountsParsable ==
    AnalysisWritten =>
        /\ SumCounts(analysis_sheet, DataRows(analysis_sheet)) = Cardinality(Parsable(orders))
        /\ \A r \in DataRows(analysis_sheet) :
              analysis_sheet[r].count =
                  Cardinality({k \in Parsable(orders) :
                                  DayOf(orders[k].date_order) = analysis_sheet[r].date})
        /\ DataRows(detail_sheet) = 4..(Len(orders) + 3)
        /\ \A k \in 1..Len(orders) : detail_sheet[k + 3] = DetailRow(orders[k])

\* one transaction with a date-only timestamp next to a well-formed one
C12_Witness ==
    /\ AnalysisWritten
    /\ Len(orders) = 2
    /\ Cardinality(Parsable(orders)) = 1
    /\ Cardinality(DataRows(analysis_sheet)) = 1
    /\ Cardinality(DataRows(detail_sheet)) = 2

----------------------------------------------------------------------------
(* The report run of main, from the return of the join to the end of the handler *)

PreviewRows == 10

\* one row of the data frame of create_analytics_dashboard
DashboardRow(order) ==
    LET partner_id == NormalizeRef(order.partner_id)
        config_id == NormalizeRef(order.config_id)
        name_of(rec) == IF "name" \in DOMAIN rec THEN rec.name ELSE <<"Unknown">>
    IN  [date |-> DayOf(order.date_order),
         amount |-> order.amount_total,
         customer |-> IF Truthy(partner_id) THEN name_of(DictGet(partner_dict, partner_id.n))
                      ELSE <<"Walk-in Customer">>,
         terminal |-> IF Truthy(config_id) THEN name_of(DictGet(config_dict, config_id.n))
                      ELSE <<"Unknown">>,
         has_customer |-> Truthy(partner_id)]

\* df_data: one row per order whose timestamp parses
DashboardRows(os) ==
    LET parsed(o) == Parses(o.date_order)
        kept == SelectSeq(os, parsed)
    IN  [k \in 1..Len(kept) |-> DashboardRow(kept[k])]

\* o.get(field, [None])[0] : whether the subscript raises (TypeError on None, on False
\* and on an int, IndexError on an empty list)
SubscriptRaises(field) ==
    ~(field.t = "absent" \/ (field.t = "list" /\ Len(field.items) > 0))

\* o.get(field, [None])[0] when it does not raise: the raw key used for the lookup
SubscriptKey(field) == IF field.t = "absent" THEN None ELSE IntV(field.items[1])

PreviewRaises(os) ==
    \E k \in 1..Min(PreviewRows, Len(os)) :
        SubscriptRaises(os[k].partner_id) \/ SubscriptRaises(os[k].config_id)

PreviewRow(o) ==
    LET partner == Lookup(partner_dict, SubscriptKey(o.partner_id))
        config == Lookup(config_dict, SubscriptKey(o.config_id))
    IN  [date |-> DayOf(o.date_order),
         terminal |-> IF "name" \in DOMAIN config THEN config.name ELSE <<"N/A">>,
         customer |-> IF "name" \in DOMAIN partner THEN partner.name
                      ELSE <<"Walk-in Customer">>,
         mobile |-> IF "mobile" \in DOMAIN partner THEN partner.mobile ELSE <<"N/A">>,
         amount |-> o.amount_total]

\* the success message and create_analytics_dashboard
RunDashboard ==
    /\ op = "run" /\ pc = "run_dashboard"
    /\ df_data' = DashboardRows(orders)
    /\ shown' = IF DashboardRows(orders) # <<>> THEN <<"success", "dashboard">>
                ELSE <<"success">>
    /\ pc' = "run_preview"
    /\ UNCHANGED <<inputs, fetchVars, orders, bookVars, preview_data, errors, result>>

\* the data preview over orders[:10], then generate_excel is entered
RunPreview ==
    /\ op = "run" /\ pc = "run_preview"
    /\ ~PreviewRaises(orders)
    /\ preview_data' = [k \in 1..Min(PreviewRows, Len(orders)) |-> PreviewRow(orders[k])]
    /\ shown' = Append(shown, "preview")
    /\ pc' = "xl_detail"
    /\ UNCHANGED <<inputs, fetchVars, orders, bookVars, df_data, errors, result>>

\* a subscript of the data preview raises: the except clause of the handler reports it
RunPreviewRaise ==
    /\ op = "run" /\ pc = "run_preview"
    /\ PreviewRaises(orders)
    /\ errors' = Append(errors, "Error generating report")
    /\ shown' = Append(shown, "troubleshooting")
    /\ pc' = "run_end"
    /\ UNCHANGED <<inputs, fetchVars, orders, bookVars, df_data, preview_data, result>>

\* generate_excel has returned: the download button and the summary statistics
RunDownload ==
    /\ op = "run" /\ pc = "run_download"
    /\ shown' = shown \o <<"download", "statistics">>
    /\ pc' = "run_end"
    /\ UNCHANGED <<inputs, fetchVars, orders, bookVars, df_data, preview_data, errors, result>>

InitRun ==
    /\ op = "run" /\ pc = "run_dashboard"
    /\ order_batch_size = 1 /\ read_batch_size = 1
    /\ NoRemote /\ NoFetch /\ NoBook /\ NoRun
    /\ partner_dict \in {PartnerDictOver(S) : S \in SUBSET (1..MaxId)}
    /\ config_dict \in {ConfigDictOver(S) : S \in SUBSET {1}}
    /\ mobile = <<>>
    /\ orders \in SeqsUpTo({Txn(p, c, 2, "2024-01-01 10:00:00") :
                               p \in RefFields(1..MaxId),
                               c \in {None, IntV(1), ListV(<<1, "label">>)}}, MaxOrders)
    /\ errors = <<>> /\ result = <<>>

NextRun ==
    \/ RunDashboard
    \/ RunPreview
    \/ RunPreviewRaise
    \/ ExcelDetailSheet
    \/ ExcelSummarySheet
    \/ ExcelAnalysisSheet
    \/ ExcelClose
    \/ ExcelRaise
    \/ RunDownload

SpecRun == InitRun /\ [][NextRun]_vars

\* the construction of the workbook raised in this run
ExcelRaised == \E k \in 1..Len(errors) : errors[k] = "Error generating Excel report"

DownloadOffered == \E k \in 1..Len(shown) : shown[k] = "download"

\* C5: for transactions whose references are null, a bare id or an [id, label] pair, and
\* for any customer and terminal maps, the dashboard, the data preview and the workbook
\* render resolve the references without raising: unless a step of the workbook
\* construction itself fails, the run reaches generate_excel and a workbook is returned.
C5_RunReturnsWorkbook ==
    (op = "run" /\ pc = "run_end" /\ ~ExcelRaised) =>
        /\ errors = <<>>
        /\ "workbook" \in DOMAIN result
        /\ DownloadOffered

\* C15: if a step of the workbook construction raises, generate_excel raises to its
\* caller and returns no workbook, and the run offers no download; a workbook that is
\* returned holds the three sheets complete.
C15_RaiseReturnsNoWorkbook ==
    op = "run" =>
        /\ ExcelRaised =>
              /\ pc = "run_end"
              /\ result = <<>>
              /\ ~DownloadOffered
              /\ Last(errors) = "Error generating report"
              /\ Last(shown) = "troubleshooting"
        /\ "workbook" \in DOMAIN result =>
              /\ ~ExcelRaised
              /\ result.workbook[1] = DetailSheet(orders)
              /\ result.workbook[2] = SummarySheet(CustomerFold(orders, Len(orders)))
              /\ result.workbook[3] = AnalysisSheet(DateFold(orders, Len(orders)))
        /\ DownloadOffered => "workbook" \in DOMAIN result

\* the preview was shown, then the construction raised: both messages, no download
C15_Witness ==
    /\ op = "run" /\ pc = "run_end"
    /\ orders # <<>>
    /\ \E k \in 1..Len(shown) : shown[k] = "preview"
    /\ errors = <<"Error generating Excel report", "Error generating report">>
    /\ result = <<>>
    /\ ~DownloadOffered

----------------------------------------------------------------------------
(* The script body of main: date range, terminal resolution, the button *)

\* the calendar of January and February 2024 as day numbers 1..60
MonthStart(d) == IF d >= 32 THEN 32 ELSE 1

Presets == {"Custom", "Today", "Yesterday", "Last 7 days", "Last 30 days", "This Month",
            "Last Month"}

\* the <<from_date, to_date>> of a preset other than Custom
PresetRange(preset, day) ==
    IF preset = "Today" THEN <<day, day>>
    ELSE IF preset = "Yesterday" THEN <<day - 1, day - 1>>
    ELSE IF preset = "Last 7 days" THEN <<day - 7, day>>
    ELSE IF preset = "Last 30 days" THEN <<day - 30, day>>
    ELSE IF preset = "This Month" THEN <<MonthStart(day), day>>
    ELSE <<MonthStart(MonthStart(day) - 1), MonthStart(day) - 1>>

\* the days the two date inputs of the Custom preset are set to (from defaults to
\* 2024-01-01, to defaults to today)
CustomDays == {1, 40, 41}

\* date.strftime('%Y-%m-%d %H:%M:%S') as <<day, second of the day>>: a date carries no
\* time of day and the three time fields are formatted as 00:00:00
Strftime(d) == <<d, 0>>

\* order of two timestamps that were formatted with '%Y-%m-%d %H:%M:%S'
TsLeq(a, b) == a[1] < b[1] \/ (a[1] = b[1] /\ a[2] <= b[2])

\* the domain of the search call of fetch_order_ids
SearchDomain(ids, from, to) ==
    [config_ids |-> ids, from_ts |-> Strftime(from), to_ts |-> Strftime(to), state |-> "done"]

\* whether the remote's search with the domain returns the order
Admits(dom, order) ==
    /\ order.config_id \in dom.config_ids
    /\ TsLeq(dom.from_ts, order.ts)
    /\ TsLeq(order.ts, dom.to_ts)
    /\ order.state = dom.state

\* [config['id'] for config in pos_configs if config['name'] in selected_configs]
SelectedIds(configs, names) ==
    {configs[k].id : k \in {j \in 1..Len(configs) :
                              \E n \in 1..Len(names) : names[n] = configs[j].name}}

\* the sidebar: the preset and the two dates
MainDates ==
    /\ op = "main" /\ pc = "main_dates"
    /\ \E preset \in Presets :
          IF preset = "Custom"
          THEN /\ from_date' \in CustomDays
               /\ to_date' \in CustomDays \cup {today}
          ELSE /\ from_date' = PresetRange(preset, today)[1]
               /\ to_date' = PresetRange(preset, today)[2]
    /\ pc' = "main_resolve"
    /\ UNCHANGED <<op, order_batch_size, read_batch_size, remote_ids, remote_partners,
                   branch_name, remote_terminals, partner_dict, config_dict, mobile, today,
                   pos_configs, selected_configs, button, domain, fetchVars, orders,
                   bookVars, df_data, preview_data, shown, errors, result>>

\* connect_to_odoo and fetch_pos_configs answer
MainResolve ==
    /\ op = "main" /\ pc = "main_resolve"
    /\ LET configs == RemoteSearchRead(branch_name)
           accept(c) == AcceptConfig(c, branch_name) IN
        /\ rpc_calls' = Append(rpc_calls, SearchReadCall(Len(configs)))
        /\ pos_configs' = SelectSeq(configs, accept)
    /\ pc' = "main_terminals"
    /\ UNCHANGED <<op, order_batch_size, read_batch_size, remote_ids, remote_partners,
                   branch_name, remote_terminals, partner_dict, config_dict, mobile, today,
                   from_date, to_date, selected_configs, button, domain, scanVars, i,
                   relVars, progress, orders, bookVars, df_data, preview_data, shown,
                   errors, result>>

\* the query of fetch_pos_configs raises: it reports the error and returns []
MainResolveRaise ==
    /\ op = "main" /\ pc = "main_resolve"
    /\ rpc_calls' = Append(rpc_calls, SearchReadCall(-1))
    /\ errors' = Append(errors, "Error fetching POS configs")
    /\ pos_configs' = <<>>
    /\ pc' = "main_terminals"
    /\ UNCHANGED <<op, order_batch_size, read_batch_size, remote_ids, remote_partners,
                   branch_name, remote_terminals, partner_dict, config_dict, mobile, today,
                   from_date, to_date, selected_configs, button, domain, scanVars, i,
                   relVars, progress, orders, bookVars, df_data, preview_data, shown,
                   result>>

\* connect_to_odoo raises: the warning of the except clause, pos_configs stays []
MainConnectRaise ==
    /\ op = "main" /\ pc = "main_resolve"
    /\ shown' = Append(shown, "Could not fetch POS configurations")
    /\ pos_configs' = <<>>
    /\ pc' = "main_terminals"
    /\ UNCHANGED <<op, order_batch_size, read_batch_size, remote_ids, remote_partners,
                   branch_name, remote_terminals, partner_dict, config_dict, mobile, today,
                   from_date, to_date, selected_configs, button, domain, fetchVars, orders,
                   bookVars, df_data, preview_data, errors, result>>

\* `if not pos_configs:` the warning; the multiselect is not drawn and selected_configs
\* is not assigned
MainNoTerminals ==
    /\ op = "main" /\ pc = "main_terminals"
    /\ pos_configs = <<>>
    /\ shown' = Append(shown, "No POS terminals found for this branch!")
    /\ pc' = "main_button"
    /\ UNCHANGED <<op, order_batch_size, read_batch_size, remote_ids, remote_partners,
                   branch_name, remote_terminals, partner_dict, config_dict, mobile, today,
                   from_date, to_date, pos_configs, selected_configs, button, domain, fetchVars,
                   orders, bookVars, df_data, preview_data, errors, result>>

\* the terminal cards and the multiselect: any subset of the names, in the order offered
MainSelect ==
    /\ op = "main" /\ pc = "main_terminals"
    /\ pos_configs # <<>>
    /\ \E picked \in SUBSET (1..Len(pos_configs)) :
          selected_configs' =
              ListV(LET in(c) == \E k \in picked : pos_configs[k] = c
                        kept == SelectSeq(pos_configs, in)
                    IN  [k \in 1..Len(kept) |-> kept[k].name])
    /\ pc' = "main_button"
    /\ UNCHANGED <<op, order_batch_size, read_batch_size, remote_ids, remote_partners,
                   branch_name, remote_terminals, partner_dict, config_dict, mobile, today,
                   from_date, to_date, pos_configs, button, domain, fetchVars, orders, bookVars,
                   df_data, preview_data, shown, errors, result>>

\* st.button returns False: the script run ends with the footer
MainNoPress ==
    /\ op = "main" /\ pc = "main_button"
    /\ button' = FALSE
    /\ pc' = "main_end"
    /\ UNCHANGED <<op, order_batch_size, read_batch_size, remote_ids, remote_partners,
                   branch_name, remote_terminals, partner_dict, config_dict, mobile, today,
                   from_date, to_date, pos_configs, selected_configs, domain, fetchVars, orders,
                   bookVars, df_data, preview_data, shown, errors, result>>

\* the button is pressed and `if not selected_configs:` reads a name that was never
\* assigned: UnboundLocalError, outside every try, ends the script run
MainPressUnbound ==
    /\ op = "main" /\ pc = "main_button"
    /\ selected_configs = Unbound
    /\ button' = TRUE
    /\ shown' = Append(shown, "UnboundLocalError")
    /\ pc' = "main_crashed"
    /\ UNCHANGED <<op, order_batch_size, read_batch_size, remote_ids, remote_partners,
                   branch_name, remote_terminals, partner_dict, config_dict, mobile, today,
                   from_date, to_date, pos_configs, selected_configs, domain, fetchVars, orders,
                   bookVars, df_data, preview_data, errors, result>>

\* the button is pressed with an empty selection: st.error and return
MainPressNoneSelected ==
    /\ op = "main" /\ pc = "main_button"
    /\ selected_configs = ListV(<<>>)
    /\ button' = TRUE
    /\ errors' = Append(errors, "Please select at least one POS terminal!")
    /\ pc' = "main_end"
    /\ UNCHANGED <<op, order_batch_size, read_batch_size, remote_ids, remote_partners,
                   branch_name, remote_terminals, partner_dict, config_dict, mobile, today,
                   from_date, to_date, pos_configs, selected_configs, domain, fetchVars, orders,
                   bookVars, df_data, preview_data, shown, result>>

\* the button is pressed with a selection: the handler connects, maps the names to ids
\* and calls fetch_order_ids, whose search calls carry the domain
MainReport ==
    /\ op = "main" /\ pc = "main_button"
    /\ selected_configs # Unbound /\ selected_configs # ListV(<<>>)
    /\ button' = TRUE
    /\ LET ids == SelectedIds(pos_configs, selected_configs.items) IN
          IF ids = {}
          THEN /\ errors' = Append(errors, "No POS configurations selected!")
               /\ pc' = "main_end"
               /\ UNCHANGED domain
          ELSE /\ domain' = SearchDomain(ids, from_date, to_date)
               /\ pc' = "main_fetch"
               /\ UNCHANGED errors
    /\ UNCHANGED <<op, order_batch_size, read_batch_size, remote_ids, remote_partners,
                   branch_name, remote_terminals, partner_dict, config_dict, mobile, today,
                   from_date, to_date, pos_configs, selected_configs, fetchVars, orders, bookVars,
                   df_data, preview_data, shown, result>>

\* connect_to_odoo raises inside the handler: the except clause of the handler
MainReportConnectRaise ==
    /\ op = "main" /\ pc = "main_button"
    /\ selected_configs # Unbound /\ selected_configs # ListV(<<>>)
    /\ button' = TRUE
    /\ errors' = Append(errors, "Error generating report")
    /\ shown' = Append(shown, "troubleshooting")
    /\ pc' = "main_end"
    /\ UNCHANGED <<op, order_batch_size, read_batch_size, remote_ids, remote_partners,
                   branch_name, remote_terminals, partner_dict, config_dict, mobile, today,
                   from_date, to_date, pos_configs, selected_configs, domain, fetchVars, orders,
                   bookVars, df_data, preview_data, result>>

\* the next interaction: the script runs again from the top, its locals start afresh and
\* the page is drawn anew; the user may have picked another branch
MainRerun ==
    /\ op = "main" /\ pc \in {"main_end", "main_crashed", "main_fetch"}
    /\ branch_name' \in BranchOptions
    /\ from_date' = 0 /\ to_date' = 0
    /\ pos_configs' = <<>> /\ selected_configs' = Unbound /\ button' = FALSE /\ domain' = <<>>
    /\ rpc_calls' = <<>> /\ shown' = <<>> /\ errors' = <<>>
    /\ pc' = "main_dates"
    /\ UNCHANGED <<op, order_batch_size, read_batch_size, remote_ids, remote_partners,
                   remote_terminals, partner_dict, config_dict, mobile, today, scanVars, i,
                   relVars, progress, orders, bookVars, df_data, preview_data, result>>

\* the days on which the script runs: 1 February and 10 February 2024
Todays == {32, 41}

\* the terminals of the pool the remote may hold in this specification
MainPool == {1, 3, 4, 5, 7}

InitMain ==
    /\ op = "main" /\ pc = "main_dates"
    /\ order_batch_size = 1 /\ read_batch_size = 1
    /\ remote_ids = <<>> /\ remote_partners = {}
    /\ branch_name \in BranchOptions
    /\ \E keep \in SUBSET MainPool :
          remote_terminals = LET in(c) == c.id \in keep IN SelectSeq(TerminalPool, in)
    /\ NoFetch /\ NoBook
    /\ df_data = <<>> /\ preview_data = <<>> /\ shown = <<>>
    /\ today \in Todays /\ from_date = 0 /\ to_date = 0
    /\ pos_configs = <<>> /\ selected_configs = Unbound /\ button = FALSE /\ domain = <<>>
    /\ partner_dict = <<>> /\ config_dict = <<>> /\ mobile = <<>>
    /\ orders = <<>> /\ errors = <<>> /\ result = <<>>

NextMain ==
    \/ MainDates
    \/ MainResolve
    \/ MainResolveRaise
    \/ MainConnectRaise
    \/ MainNoTerminals
    \/ MainSelect
    \/ MainNoPress
    \/ MainPressUnbound
    \/ MainPressNoneSelected
    \/ MainReport
    \/ MainReportConnectRaise
    \/ MainRerun

SpecMain == InitMain /\ [][NextMain]_vars

----------------------------------------------------------------------------
(* Properties of the script body of main, checked under SpecMain *)

\* C18: if terminal resolution yields an empty list for the selected branch (no match, or
\* the query failed) and the user then requests report generation, the run ends with a
\* recoverable error message shown to the user; no unhandled exception reaches the UI.
C18_EmptyResolutionRecoverable ==
    op = "main" =>
        /\ pc # "main_crashed"
        /\ (button /\ pos_configs = <<>>) => (pc = "main_end" /\ errors # <<>>)

\* what the code does: the button pressed after an empty resolution always ends the
\* script run by the unhandled exception, and nothing else does
CrashIffEmptyResolution ==
    (op = "main" /\ button) => (pc = "main_crashed" <=> pos_configs = <<>>)

\* no terminal matched the branch, the button was pressed, the script run crashed
PressedAfterNoMatch ==
    /\ op = "main" /\ pc = "main_crashed"
    /\ rpc_calls # <<>> /\ Last(rpc_calls).n >= 0
    /\ errors = <<>>

\* seconds of the day probed: 00:00:00, 12:00:00, 23:59:59
ProbeSeconds == {0, 43200, 86399}

\* the done orders of the selected terminals on a day of the selected range
OrdersInRange ==
    {[config_id |-> c, ts |-> <<d, sec>>, state |-> "done"] :
        c \in domain.config_ids, d \in from_date..to_date, sec \in ProbeSeconds}

\* C19: for a selected range from_date..to_date, the presets with from_date = to_date
\* included, the filter that fetch_order_ids sends admits every done transaction of a
\* selected terminal whose timestamp falls on a day from from_date through to_date, at
\* any time of day, the whole of to_date included.
C19_FilterAdmitsWholeRange ==
    (op = "main" /\ pc = "main_fetch") =>
        \A order \in OrdersInRange : Admits(domain, order)

\* what the code does: of the orders in the range, those up to to_date 00:00:00 are
\* admitted; to_date after midnight is left out
FilterStopsAtMidnight ==
    (op = "main" /\ pc = "main_fetch") =>
        \A order \in OrdersInRange :
            Admits(domain, order) <=> (order.ts[1] < to_date \/ order.ts[2] = 0)

\* the preset Today: nothing after 00:00:00 of today is admitted
TodayAdmitsMidnightOnly ==
    /\ op = "main" /\ pc = "main_fetch"
    /\ from_date = today /\ to_date = today
    /\ \A order \in OrdersInRange : Admits(domain, order) <=> order.ts[2] = 0

====
